---------------------------- MODULE Spec2Model ----------------------------
(* Model of the CallMoney blueprint (src/src/lib.rs): one component, its   *)
(* fields, and one action per public method.  A method is an operator from *)
(* the component's fields (a record `self`) and the arguments to the       *)
(* fields it leaves behind, whether it ran to the end or panicked, and the *)
(* value it returned.                                                      *)
EXTENDS Integers, Sequences, FiniteSets, TLC

(***************************************************************************)
(* Bounds of the model                                                     *)
(***************************************************************************)
\* Subunits per unit of a Decimal (10^18 in the Scrypto library, bounded here).
Scale == 100
\* transaction_history is explored up to this many entries.
MaxHistory == 5
\* The timestamps passed as current_date: one DateStep after the start date,
\* the start date, and BackDate before it.
DateStep == 80
BackDate == 8000

(***************************************************************************)
(* Program constants                                                       *)
(***************************************************************************)
DaysPerYear == 365

None == "None"

(***************************************************************************)
(* Inputs                                                                  *)
(***************************************************************************)
Lenders == {"lender"}
Borrowers == {"borrower"}
Collaterals == {"c1", "c2"}
Principals == {0, 100 * Scale}
InterestRates == {0, Scale \div 20, Scale}
StartDates == {0}
NoticePeriods == {-1, DateStep}
GracePeriods == {-1, 0}
PenaltyRates == {-1, Scale \div 10}
Dates == {-BackDate, 0, DateStep}
Amounts == {0, Scale, 100 * Scale, 400 * Scale}

(***************************************************************************)
(* Decimal: a fixed-point number held as an integer count of subunits.     *)
(***************************************************************************)
Abs(n) == IF n < 0 THEN -n ELSE n

\* Integer division of the underlying big integers rounds toward zero.
TruncDiv(a, b) ==
    IF (a < 0) = (b < 0) THEN Abs(a) \div Abs(b) ELSE -(Abs(a) \div Abs(b))

DecFrom(n) == n * Scale
DecMul(a, b) == TruncDiv(a * b, Scale)
DecDiv(a, b) == TruncDiv(a * Scale, b)

(***************************************************************************)
(* State: the fields of struct CallMoney, and the outcome of the last call *)
(***************************************************************************)
VARIABLES
    created,
    lender,
    borrower,
    principal,
    interest_rate,
    accrued_interest,
    start_date,
    last_interest_calculation_date,
    notice_period,
    grace_period,
    status,
    penalty_rate,
    collateral,
    transaction_history,
    ret

fields == <<lender, borrower, principal, interest_rate, accrued_interest,
            start_date, last_interest_calculation_date, notice_period,
            grace_period, status, penalty_rate, collateral,
            transaction_history>>

vars == <<created, fields, ret>>

Self ==
    [lender |-> lender, borrower |-> borrower, principal |-> principal,
     interest_rate |-> interest_rate, accrued_interest |-> accrued_interest,
     start_date |-> start_date,
     last_interest_calculation_date |-> last_interest_calculation_date,
     notice_period |-> notice_period, grace_period |-> grace_period,
     status |-> status, penalty_rate |-> penalty_rate,
     collateral |-> collateral, transaction_history |-> transaction_history]

Store(s) ==
    /\ lender' = s.lender
    /\ borrower' = s.borrower
    /\ principal' = s.principal
    /\ interest_rate' = s.interest_rate
    /\ accrued_interest' = s.accrued_interest
    /\ start_date' = s.start_date
    /\ last_interest_calculation_date' = s.last_interest_calculation_date
    /\ notice_period' = s.notice_period
    /\ grace_period' = s.grace_period
    /\ status' = s.status
    /\ penalty_rate' = s.penalty_rate
    /\ collateral' = s.collateral
    /\ transaction_history' = s.transaction_history

\* A method that ran to its end, and one that panicked with message msg.
Returned(s, val) == [ok |-> TRUE, self |-> s, val |-> val, err |-> ""]
Panicked(s, msg) == [ok |-> FALSE, self |-> s, val |-> <<>>, err |-> msg]

(***************************************************************************)
(* Methods                                                                 *)
(***************************************************************************)
NoComponent ==
    [lender |-> None, borrower |-> None, principal |-> 0,
     interest_rate |-> 0, accrued_interest |-> 0, start_date |-> 0,
     last_interest_calculation_date |-> 0, notice_period |-> 0,
     grace_period |-> 0, status |-> None, penalty_rate |-> 0,
     collateral |-> None, transaction_history |-> <<>>]

\* Variant: an interest rate of exactly 1 is accepted.
instantiate_call_money_RateUpToOne(l, b, p, ir, sd, np, gp, pr) ==
    IF ~(p > 0) THEN Panicked(NoComponent, "Principal must be positive")
    ELSE IF ~(ir > 0 /\ ir <= DecFrom(1))
        THEN Panicked(NoComponent, "Interest rate must be between 0 and 1")
    ELSE IF ~(np >= 0)
        THEN Panicked(NoComponent, "Notice period cannot be negative")
    ELSE IF ~(gp >= 0)
        THEN Panicked(NoComponent, "Grace period cannot be negative")
    ELSE IF ~(pr >= 0)
        THEN Panicked(NoComponent, "Penalty rate cannot be negative")
    ELSE Returned(
        [lender |-> l, borrower |-> b, principal |-> p,
         interest_rate |-> ir, start_date |-> sd, accrued_interest |-> 0,
         last_interest_calculation_date |-> sd, status |-> "Active",
         notice_period |-> np, grace_period |-> gp, penalty_rate |-> pr,
         collateral |-> None,
         transaction_history |-> <<(<<"Contract initiated">>)>>], <<>>)

instantiate_call_money(l, b, p, ir, sd, np, gp, pr) ==
    IF ~(p > 0) THEN Panicked(NoComponent, "Principal must be positive")
    ELSE IF ~(ir > 0 /\ ir < DecFrom(1))
        THEN Panicked(NoComponent, "Interest rate must be between 0 and 1")
    ELSE IF ~(np >= 0)
        THEN Panicked(NoComponent, "Notice period cannot be negative")
    ELSE IF ~(gp >= 0)
        THEN Panicked(NoComponent, "Grace period cannot be negative")
    ELSE IF ~(pr >= 0)
        THEN Panicked(NoComponent, "Penalty rate cannot be negative")
    ELSE Returned(
        [lender |-> l, borrower |-> b, principal |-> p,
         interest_rate |-> ir, start_date |-> sd, accrued_interest |-> 0,
         last_interest_calculation_date |-> sd, status |-> "Active",
         notice_period |-> np, grace_period |-> gp, penalty_rate |-> pr,
         collateral |-> None,
         transaction_history |-> <<(<<"Contract initiated">>)>>], <<>>)

\* principal * interest_rate * Decimal::from(days) / Decimal::from(365)
Interest(p, rate, days) ==
    DecDiv(DecMul(DecMul(p, rate), DecFrom(days)), DecFrom(DaysPerYear))

\* Variant: the log entry is assigned to the history instead of pushed.
update_accrued_interest_AssignLog(self, current_date) ==
    LET days == current_date - self.last_interest_calculation_date
        interest == Interest(self.principal, self.interest_rate, days)
    IN  [self EXCEPT
            !.accrued_interest = @ + interest,
            !.last_interest_calculation_date = current_date,
            !.transaction_history = <<(<<"Interest updated: ", interest>>)>>]

\* Variant: the accrual is not logged.
update_accrued_interest_NoLog(self, current_date) ==
    LET days == current_date - self.last_interest_calculation_date
        interest == Interest(self.principal, self.interest_rate, days)
    IN  [self EXCEPT
            !.accrued_interest = @ + interest,
            !.last_interest_calculation_date = current_date]

\* Variant: the elapsed days are taken with the operands swapped.
update_accrued_interest_Swapped(self, current_date) ==
    LET days == self.last_interest_calculation_date - current_date
        interest == Interest(self.principal, self.interest_rate, days)
    IN  [self EXCEPT
            !.accrued_interest = @ + interest,
            !.last_interest_calculation_date = current_date,
            !.transaction_history =
                Append(@, <<"Interest updated: ", interest>>)]

\* Variant: the interest is added to the principal as well.
update_accrued_interest_Capitalise(self, current_date) ==
    LET days == current_date - self.last_interest_calculation_date
        interest == Interest(self.principal, self.interest_rate, days)
    IN  [self EXCEPT
            !.principal = @ + interest,
            !.accrued_interest = @ + interest,
            !.last_interest_calculation_date = current_date,
            !.transaction_history =
                Append(@, <<"Interest updated: ", interest>>)]

update_accrued_interest(self, current_date) ==
    LET days == current_date - self.last_interest_calculation_date
        interest == Interest(self.principal, self.interest_rate, days)
    IN  [self EXCEPT
            !.accrued_interest = @ + interest,
            !.last_interest_calculation_date = current_date,
            !.transaction_history =
                Append(@, <<"Interest updated: ", interest>>)]

\* Variant: a full repayment leaves accrued_interest as it was.
repay_KeepInterest(self, amount, current_date) ==
    LET s1 == update_accrued_interest(self, current_date)
        total_due == s1.principal + s1.accrued_interest
    IN  IF amount >= total_due
        THEN LET excess == amount - total_due
             IN  Returned(
                    [s1 EXCEPT
                        !.status = "Repaid",
                        !.principal = 0,
                        !.transaction_history =
                            Append(@, <<"Loan fully repaid. Excess: ", excess>>)],
                    <<excess>>)
        ELSE LET s2 == [s1 EXCEPT !.accrued_interest = @ - amount]
                 s3 == IF s2.accrued_interest < 0
                       THEN [s2 EXCEPT
                                !.principal = @ + s2.accrued_interest,
                                !.accrued_interest = 0]
                       ELSE s2
             IN  Returned(
                    [s3 EXCEPT
                        !.transaction_history =
                            Append(@, <<"Partial repayment: ", amount>>)],
                    <<0>>)

\* Variant: a partial payment above the interest is not carried over to the
\* principal.
repay_NoCarry(self, amount, current_date) ==
    LET s1 == update_accrued_interest(self, current_date)
        total_due == s1.principal + s1.accrued_interest
    IN  IF amount >= total_due
        THEN LET excess == amount - total_due
             IN  Returned(
                    [s1 EXCEPT
                        !.status = "Repaid",
                        !.principal = 0,
                        !.accrued_interest = 0,
                        !.transaction_history =
                            Append(@, <<"Loan fully repaid. Excess: ", excess>>)],
                    <<excess>>)
        ELSE LET s2 == [s1 EXCEPT !.accrued_interest = @ - amount]
                 s3 == IF s2.accrued_interest < 0
                       THEN [s2 EXCEPT !.accrued_interest = 0]
                       ELSE s2
             IN  Returned(
                    [s3 EXCEPT
                        !.transaction_history =
                            Append(@, <<"Partial repayment: ", amount>>)],
                    <<0>>)

\* Variant: a partial payment above the interest takes the whole amount,
\* not the remainder, off the principal.
repay_WholeAmountOffPrincipal(self, amount, current_date) ==
    LET s1 == update_accrued_interest(self, current_date)
        total_due == s1.principal + s1.accrued_interest
    IN  IF amount >= total_due
        THEN LET excess == amount - total_due
             IN  Returned(
                    [s1 EXCEPT
                        !.status = "Repaid",
                        !.principal = 0,
                        !.accrued_interest = 0,
                        !.transaction_history =
                            Append(@, <<"Loan fully repaid. Excess: ", excess>>)],
                    <<excess>>)
        ELSE LET s2 == [s1 EXCEPT !.accrued_interest = @ - amount]
                 s3 == IF s2.accrued_interest < 0
                       THEN [s2 EXCEPT
                                !.principal = @ - amount,
                                !.accrued_interest = 0]
                       ELSE s2
             IN  Returned(
                    [s3 EXCEPT
                        !.transaction_history =
                            Append(@, <<"Partial repayment: ", amount>>)],
                    <<0>>)

\* Variant: a payment of exactly the total due is handled as partial.
repay_StrictlyAbove(self, amount, current_date) ==
    LET s1 == update_accrued_interest(self, current_date)
        total_due == s1.principal + s1.accrued_interest
    IN  IF amount > total_due
        THEN LET excess == amount - total_due
             IN  Returned(
                    [s1 EXCEPT
                        !.status = "Repaid",
                        !.principal = 0,
                        !.accrued_interest = 0,
                        !.transaction_history =
                            Append(@, <<"Loan fully repaid. Excess: ", excess>>)],
                    <<excess>>)
        ELSE LET s2 == [s1 EXCEPT !.accrued_interest = @ - amount]
                 s3 == IF s2.accrued_interest < 0
                       THEN [s2 EXCEPT
                                !.principal = @ + s2.accrued_interest,
                                !.accrued_interest = 0]
                       ELSE s2
             IN  Returned(
                    [s3 EXCEPT
                        !.transaction_history =
                            Append(@, <<"Partial repayment: ", amount>>)],
                    <<0>>)

repay(self, amount, current_date) ==
    LET s1 == update_accrued_interest(self, current_date)
        total_due == s1.principal + s1.accrued_interest
    IN  IF amount >= total_due
        THEN LET excess == amount - total_due
             IN  Returned(
                    [s1 EXCEPT
                        !.status = "Repaid",
                        !.principal = 0,
                        !.accrued_interest = 0,
                        !.transaction_history =
                            Append(@, <<"Loan fully repaid. Excess: ", excess>>)],
                    <<excess>>)
        ELSE LET s2 == [s1 EXCEPT !.accrued_interest = @ - amount]
                 s3 == IF s2.accrued_interest < 0
                       THEN [s2 EXCEPT
                                !.principal = @ + s2.accrued_interest,
                                !.accrued_interest = 0]
                       ELSE s2
             IN  Returned(
                    [s3 EXCEPT
                        !.transaction_history =
                            Append(@, <<"Partial repayment: ", amount>>)],
                    <<0>>)

\* Variant: the status is not checked.
call_money_NoGuard(self, current_date) ==
    LET s1 == update_accrued_interest(self, current_date)
        total_due == s1.principal + s1.accrued_interest
        due_date == current_date + s1.notice_period
    IN  Returned(
            [s1 EXCEPT
                !.status = "Called",
                !.transaction_history =
                    Append(@, <<"Money called. Due on: ", due_date>>)],
            <<total_due, due_date>>)

\* Variant: the status is checked after the accrual.
call_money_LateAssert(self, current_date) ==
    LET s1 == update_accrued_interest(self, current_date)
        total_due == s1.principal + s1.accrued_interest
        due_date == current_date + s1.notice_period
    IN  IF s1.status # "Active" THEN Panicked(s1, "Contract is not active")
        ELSE Returned(
                [s1 EXCEPT
                    !.status = "Called",
                    !.transaction_history =
                        Append(@, <<"Money called. Due on: ", due_date>>)],
                <<total_due, due_date>>)

\* Variant: the due date leaves out the notice period.
call_money_NoNotice(self, current_date) ==
    IF self.status # "Active" THEN Panicked(self, "Contract is not active")
    ELSE
        LET s1 == update_accrued_interest(self, current_date)
            total_due == s1.principal + s1.accrued_interest
            due_date == current_date
        IN  Returned(
                [s1 EXCEPT
                    !.status = "Called",
                    !.transaction_history =
                        Append(@, <<"Money called. Due on: ", due_date>>)],
                <<total_due, due_date>>)

call_money(self, current_date) ==
    IF self.status # "Active" THEN Panicked(self, "Contract is not active")
    ELSE
        LET s1 == update_accrued_interest(self, current_date)
            total_due == s1.principal + s1.accrued_interest
            due_date == current_date + s1.notice_period
        IN  Returned(
                [s1 EXCEPT
                    !.status = "Called",
                    !.transaction_history =
                        Append(@, <<"Money called. Due on: ", due_date>>)],
                <<total_due, due_date>>)

\* Variant: the entry check tests for the status call_money requires.
apply_penalty_ActiveCheck(self, current_date) ==
    IF self.status # "Active"
    THEN Panicked(self, "Contract has not been called")
    ELSE
        LET c == call_money(self, current_date)
        IN  IF ~c.ok THEN c
            ELSE
                LET s1 == c.self
                    due_date == c.val[2]
                IN  IF current_date > due_date + s1.grace_period
                    THEN
                        LET days_overdue ==
                                current_date - (due_date + s1.grace_period)
                            penalty ==
                                Interest(s1.principal, s1.penalty_rate,
                                         days_overdue)
                        IN  Returned(
                                [s1 EXCEPT
                                    !.accrued_interest = @ + penalty,
                                    !.transaction_history =
                                        Append(@, <<"Penalty applied: ", penalty>>)],
                                <<>>)
                    ELSE Returned(s1, <<>>)

apply_penalty(self, current_date) ==
    IF self.status # "Called"
    THEN Panicked(self, "Contract has not been called")
    ELSE
        LET c == call_money(self, current_date)
        IN  IF ~c.ok THEN c
            ELSE
                LET s1 == c.self
                    due_date == c.val[2]
                IN  IF current_date > due_date + s1.grace_period
                    THEN
                        LET days_overdue ==
                                current_date - (due_date + s1.grace_period)
                            penalty ==
                                Interest(s1.principal, s1.penalty_rate,
                                         days_overdue)
                        IN  Returned(
                                [s1 EXCEPT
                                    !.accrued_interest = @ + penalty,
                                    !.transaction_history =
                                        Append(@, <<"Penalty applied: ", penalty>>)],
                                <<>>)
                    ELSE Returned(s1, <<>>)

\* Variant: the slot is not checked.
add_collateral_Overwrite(self, c) ==
    Returned(
        [self EXCEPT
            !.collateral = c,
            !.transaction_history = Append(@, <<"Collateral added">>)],
        <<>>)

add_collateral(self, c) ==
    IF self.collateral # None
    THEN Panicked(self, "Collateral already exists")
    ELSE Returned(
            [self EXCEPT
                !.collateral = c,
                !.transaction_history = Append(@, <<"Collateral added">>)],
            <<>>)

\* Variant: the principal is not checked.
remove_collateral_NoGate(self) ==
    LET c == self.collateral
        s1 == [self EXCEPT !.collateral = None]
    IN  IF c # None
        THEN Returned(
                [s1 EXCEPT
                    !.transaction_history =
                        Append(@, <<"Collateral removed">>)],
                <<c>>)
        ELSE Returned(s1, <<c>>)

remove_collateral(self) ==
    IF self.principal # 0
    THEN Panicked(self, "Loan must be fully repaid to remove collateral")
    ELSE
        LET c == self.collateral
            s1 == [self EXCEPT !.collateral = None]
        IN  IF c # None
            THEN Returned(
                    [s1 EXCEPT
                        !.transaction_history =
                            Append(@, <<"Collateral removed">>)],
                    <<c>>)
            ELSE Returned(s1, <<c>>)

get_details(self) ==
    <<self.lender, self.borrower, self.principal, self.interest_rate,
      self.start_date, self.accrued_interest, self.status, self.collateral>>

get_transaction_history(self) == self.transaction_history

(***************************************************************************)
(* Actions: one call of a method on the component                          *)
(***************************************************************************)
\* The outcome of a call of method op with arguments args.
Outcome(op, args, r) ==
    [op |-> op, args |-> args, ok |-> r.ok, val |-> r.val, err |-> r.err]

\* The component after the call, within the explored history length.
Call(op, args, r) ==
    /\ created
    /\ Len(r.self.transaction_history) <= MaxHistory
    /\ Store(r.self)
    /\ ret' = Outcome(op, args, r)
    /\ UNCHANGED created

Init ==
    \E l \in Lenders, b \in Borrowers, p \in Principals,
       ir \in InterestRates, sd \in StartDates, np \in NoticePeriods,
       gp \in GracePeriods, pr \in PenaltyRates :
        LET r == instantiate_call_money(l, b, p, ir, sd, np, gp, pr)
        IN  /\ created = r.ok
            /\ lender = r.self.lender
            /\ borrower = r.self.borrower
            /\ principal = r.self.principal
            /\ interest_rate = r.self.interest_rate
            /\ accrued_interest = r.self.accrued_interest
            /\ start_date = r.self.start_date
            /\ last_interest_calculation_date =
                    r.self.last_interest_calculation_date
            /\ notice_period = r.self.notice_period
            /\ grace_period = r.self.grace_period
            /\ status = r.self.status
            /\ penalty_rate = r.self.penalty_rate
            /\ collateral = r.self.collateral
            /\ transaction_history = r.self.transaction_history
            /\ ret = Outcome("instantiate_call_money",
                             <<l, b, p, ir, sd, np, gp, pr>>, r)

UpdateAccruedInterest ==
    \E d \in Dates :
        Call("update_accrued_interest", <<d>>,
             Returned(update_accrued_interest(Self, d), <<>>))

Repay ==
    \E a \in Amounts, d \in Dates :
        Call("repay", <<a, d>>, repay(Self, a, d))

CallMoney ==
    \E d \in Dates : Call("call_money", <<d>>, call_money(Self, d))

ApplyPenalty ==
    \E d \in Dates : Call("apply_penalty", <<d>>, apply_penalty(Self, d))

AddCollateral ==
    \E c \in Collaterals :
        Call("add_collateral", <<c>>, add_collateral(Self, c))

RemoveCollateral ==
    Call("remove_collateral", <<>>, remove_collateral(Self))

GetDetails ==
    Call("get_details", <<>>, Returned(Self, get_details(Self)))

GetTransactionHistory ==
    Call("get_transaction_history", <<>>,
         Returned(Self, get_transaction_history(Self)))

Next ==
    \/ UpdateAccruedInterest
    \/ Repay
    \/ CallMoney
    \/ ApplyPenalty
    \/ AddCollateral
    \/ RemoveCollateral
    \/ GetDetails
    \/ GetTransactionHistory

Spec == Init /\ [][Next]_vars

(***************************************************************************)
(* Properties                                                              *)
(***************************************************************************)
Forward == {<<"Active", "Active">>, <<"Active", "Called">>,
            <<"Called", "Called">>, <<"Called", "Repaid">>,
            <<"Repaid", "Repaid">>}

\* C1 (as stated): the status only moves along Active -> Called -> Repaid;
\* no step moves it backwards and no step takes Active directly to Repaid.
C1_StatusChainNoSkip == [][created => <<status, status'>> \in Forward]_vars

\* C1 (amended): the status never moves backwards (Called never returns to
\* Active, Repaid never changes again); from Active it moves to Called by
\* call_money or directly to Repaid by a repay that covers the total due.
C1_StatusNeverBackwards ==
    [][created =>
        <<status, status'>> \in Forward \cup {<<"Active", "Repaid">>}]_vars

\* A contract repaid in full that was never called.
C1_Witness ==
    /\ created
    /\ status = "Repaid"
    /\ ret.op = "call_money"
    /\ ~ret.ok
    /\ \A i \in 1..Len(transaction_history) :
            transaction_history[i][1] # "Money called. Due on: "

\* C2: after every operation principal >= 0 and accrued_interest >= 0.
C2_BalancesNonNegative ==
    created => principal >= 0 /\ accrued_interest >= 0

\* C3: last_interest_calculation_date >= start_date in every state, and no
\* operation makes last_interest_calculation_date smaller than it was.
C3_CalcDateMonotone ==
    /\ [](created => last_interest_calculation_date >= start_date)
    /\ [][last_interest_calculation_date'
            >= last_interest_calculation_date]_vars

\* C4: an operation that fails (call_money, apply_penalty, add_collateral,
\* remove_collateral) leaves every field of the contract as it was.
C4_FailureIsAtomic == [][~ret'.ok => fields' = fields]_vars

\* apply_penalty rejected by its nested call_money on a contract that has
\* accrued interest, holds collateral and has a history of several entries.
C4_Witness ==
    /\ created
    /\ ret.op = "apply_penalty"
    /\ ~ret.ok
    /\ ret.err = "Contract is not active"
    /\ status = "Called"
    /\ accrued_interest > 0
    /\ collateral # None
    /\ Len(transaction_history) >= 4

\* C5: update_accrued_interest(current_date), with timestamps in seconds,
\* adds principal x interest_rate x D / 365 to accrued_interest, D being the
\* whole days elapsed since last_interest_calculation_date (seconds / 86400).
C5_InterestPerElapsedDay ==
    [][ret'.op = "update_accrued_interest" =>
        accrued_interest' = accrued_interest +
            Interest(principal, interest_rate,
                     TruncDiv(ret'.args[1] - last_interest_calculation_date,
                              86400))]_vars

\* principal + accrued_interest once accrual is brought current to date d.
TotalDueAt(d) ==
    principal + accrued_interest +
        Interest(principal, interest_rate, d - last_interest_calculation_date)

\* C6: a repay(amount, date) with amount >= total_due returns exactly
\* amount - total_due and leaves principal = 0, accrued_interest = 0 and
\* status = Repaid.
C6_FullRepayment ==
    [][(ret'.op = "repay" /\ ret'.args[1] >= TotalDueAt(ret'.args[2])) =>
        /\ ret'.ok
        /\ ret'.val = <<ret'.args[1] - TotalDueAt(ret'.args[2])>>
        /\ principal' = 0
        /\ accrued_interest' = 0
        /\ status' = "Repaid"]_vars

\* A called contract with interest accrued by the repay itself, repaid with
\* an amount above the total due.
C6_Witness ==
    /\ created
    /\ ret.op = "repay"
    /\ ret.ok
    /\ ret.val[1] > 0
    /\ status = "Repaid"
    /\ principal = 0
    /\ transaction_history[Len(transaction_history) - 1][1]
            = "Interest updated: "
    /\ transaction_history[Len(transaction_history) - 1][2] > 0
    /\ \E i \in 1..Len(transaction_history) :
            transaction_history[i][1] = "Money called. Due on: "

\* C7: a repay(amount, date) with amount < total_due returns 0, leaves the
\* status unchanged, and leaves principal + accrued_interest =
\* total_due - amount.
C7_PartialRepayment ==
    [][(ret'.op = "repay" /\ ret'.args[1] < TotalDueAt(ret'.args[2])) =>
        /\ ret'.ok
        /\ ret'.val = <<0>>
        /\ status' = status
        /\ principal' + accrued_interest'
                = TotalDueAt(ret'.args[2]) - ret'.args[1]]_vars

\* A partial payment on a called contract that exceeded the interest, so
\* that the remainder reduced the principal.
C7_Witness ==
    /\ created
    /\ ret.op = "repay"
    /\ ret.val = <<0>>
    /\ ret.args[1] > 0
    /\ status = "Called"
    /\ accrued_interest = 0
    /\ principal > 0
    /\ principal < 100 * Scale
    /\ transaction_history[Len(transaction_history) - 1][2] > 0

CollateralEntries(h) ==
    SelectSeq(h, LAMBDA e :
        e[1] \in {"Collateral added", "Collateral removed"})

\* The last successful collateral operation was an add_collateral.
AddOutstanding ==
    LET c == CollateralEntries(transaction_history)
    IN  Len(c) > 0 /\ c[Len(c)][1] = "Collateral added"

\* C8: an add_collateral that follows a successful add_collateral with no
\* successful remove_collateral in between fails ("Collateral already
\* exists") and the stored collateral keeps the value set by the first call.
C8_CollateralSingleSlot ==
    /\ [][(ret'.op = "add_collateral" /\ ret'.ok) =>
            collateral' = ret'.args[1]]_vars
    /\ [][(AddOutstanding /\ AddOutstanding') =>
            (collateral # None /\ collateral' = collateral)]_vars
    /\ [][(AddOutstanding /\ ret'.op = "add_collateral") =>
            /\ ~ret'.ok
            /\ ret'.err = "Collateral already exists"
            /\ collateral' = collateral]_vars

\* A second add_collateral, with another asset, rejected.
C8_Witness ==
    /\ created
    /\ AddOutstanding
    /\ ret.op = "add_collateral"
    /\ ~ret.ok
    /\ collateral = "c1"
    /\ ret.args = <<"c2">>

\* C9: with principal > 0, whatever the status and whether or not collateral
\* is set, remove_collateral fails ("Loan must be fully repaid to remove
\* collateral") and the collateral field is not cleared.
C9_CollateralReleaseGate ==
    [][(created /\ principal > 0 /\ ret'.op = "remove_collateral") =>
        /\ ~ret'.ok
        /\ ret'.err = "Loan must be fully repaid to remove collateral"
        /\ collateral' = collateral]_vars

\* remove_collateral rejected on a called, partly repaid contract that holds
\* collateral.
C9_Witness ==
    /\ created
    /\ ret.op = "remove_collateral"
    /\ ~ret.ok
    /\ principal > 0
    /\ status = "Called"
    /\ collateral # None

IsPrefix(a, b) == Len(a) <= Len(b) /\ SubSeq(b, 1, Len(a)) = a

\* C10: transaction_history is append-only: for every operation, successful
\* or failed, the history before is a prefix of the history after, and its
\* first entry is always "Contract initiated".
C10_HistoryAppendOnly ==
    /\ [](created =>
            /\ Len(transaction_history) >= 1
            /\ transaction_history[1] = <<"Contract initiated">>)
    /\ [][IsPrefix(transaction_history, transaction_history')]_vars

\* A history of several entries, the last one pushed by a remove_collateral
\* that returned the collateral.
C10_Witness ==
    /\ created
    /\ Len(transaction_history) >= 4
    /\ ret.op = "remove_collateral"
    /\ ret.ok
    /\ ret.val # <<None>>

\* The number of entries the step pushed to transaction_history.
Pushed == Len(transaction_history') - Len(transaction_history)

\* C11 (as stated): each successful update_accrued_interest, repay,
\* call_money, add_collateral and remove_collateral with collateral present
\* lengthens transaction_history by exactly one entry, and a successful
\* apply_penalty by exactly two.
C11_OneEntryPerOperation ==
    [][ret'.ok =>
        /\ ret'.op \in {"update_accrued_interest", "repay", "call_money",
                         "add_collateral"} => Pushed = 1
        /\ (ret'.op = "remove_collateral" /\ collateral # None) => Pushed = 1
        /\ ret'.op = "apply_penalty" => Pushed = 2]_vars

\* C11 (amended): a successful update_accrued_interest, add_collateral or
\* remove_collateral with collateral present lengthens transaction_history
\* by exactly one entry; a successful repay or call_money lengthens it by
\* exactly two, the "Interest updated" entry of its accrual and its own.
C11_EntriesPerOperation ==
    [][ret'.ok =>
        /\ ret'.op \in {"update_accrued_interest", "add_collateral"} =>
                Pushed = 1
        /\ (ret'.op = "remove_collateral" /\ collateral # None) => Pushed = 1
        /\ ret'.op \in {"repay", "call_money"} =>
                /\ Pushed = 2
                /\ transaction_history'[Len(transaction_history) + 1][1]
                        = "Interest updated: "]_vars

\* A repay on a called contract: the history holds the creation entry and
\* two entries for each of call_money and repay.
C11_Witness ==
    /\ created
    /\ ret.op = "repay"
    /\ ret.ok
    /\ Len(transaction_history) = 5
    /\ transaction_history[2][1] = "Interest updated: "
    /\ transaction_history[3][1] = "Money called. Due on: "
    /\ transaction_history[4][1] = "Interest updated: "
    /\ transaction_history[5][1] = "Partial repayment: "

\* C12: call_money(current_date) succeeds exactly when status is Active; on
\* success it brings accrual current to current_date, sets status to Called
\* and returns (principal + accrued_interest after that accrual,
\* current_date + notice_period); with status Called or Repaid it fails
\* ("Contract is not active").
C12_CallMoney ==
    [][ret'.op = "call_money" =>
        IF status = "Active"
        THEN /\ ret'.ok
             /\ status' = "Called"
             /\ last_interest_calculation_date' = ret'.args[1]
             /\ accrued_interest' = accrued_interest +
                    Interest(principal, interest_rate,
                             ret'.args[1] - last_interest_calculation_date)
             /\ ret'.val = <<TotalDueAt(ret'.args[1]),
                             ret'.args[1] + notice_period>>
        ELSE /\ ~ret'.ok
             /\ ret'.err = "Contract is not active"
             /\ status' = status]_vars

\* A successful call_money, after an earlier accrual, that accrued interest
\* itself, on a contract with a notice period.
C12_Witness ==
    /\ created
    /\ ret.op = "call_money"
    /\ ret.ok
    /\ status = "Called"
    /\ notice_period > 0
    /\ Len(transaction_history) = 4
    /\ transaction_history[2][1] = "Interest updated: "
    /\ transaction_history[3][1] = "Interest updated: "
    /\ transaction_history[3][2] > 0
    /\ accrued_interest > 0
    /\ ret.val = <<principal + accrued_interest,
                   last_interest_calculation_date + notice_period>>

\* The due date announced by the call_money that called the contract.
DueDate ==
    LET c == SelectSeq(transaction_history, LAMBDA e :
                e[1] = "Money called. Due on: ")
    IN  c[Len(c)][2]

\* The penalty for a payment overdue at date d.
PenaltyAt(d) ==
    Interest(principal, penalty_rate, d - (DueDate + grace_period))

\* C13: apply_penalty(current_date) on a contract whose status is Called,
\* with current_date > due_date + grace_period, increases accrued_interest
\* by principal x penalty_rate x days_overdue / 365 and appends a "Penalty
\* applied" entry; when not overdue it adds no penalty.
C13_PenaltyWhenOverdue ==
    [][(status = "Called" /\ ret'.op = "apply_penalty") =>
        IF ret'.args[1] > DueDate + grace_period
        THEN /\ ret'.ok
             /\ accrued_interest' = accrued_interest + PenaltyAt(ret'.args[1])
             /\ transaction_history'[Len(transaction_history')]
                    = <<"Penalty applied: ", PenaltyAt(ret'.args[1])>>
        ELSE accrued_interest' = accrued_interest]_vars

\* C14: creation succeeds exactly when principal > 0, 0 < interest_rate < 1,
\* notice_period >= 0, grace_period >= 0 and penalty_rate >= 0; the contract
\* it returns has status Active, accrued_interest = 0, the input principal,
\* last_interest_calculation_date = start_date, no collateral and a
\* transaction_history of exactly one entry; otherwise no contract exists.
C14_Creation ==
    ret.op = "instantiate_call_money" =>
        LET p == ret.args[3]
            ir == ret.args[4]
            sd == ret.args[5]
            np == ret.args[6]
            gp == ret.args[7]
            pr == ret.args[8]
        IN  /\ created = ret.ok
            /\ created <=>
                (p > 0 /\ 0 < ir /\ ir < Scale /\ np >= 0 /\ gp >= 0 /\ pr >= 0)
            /\ created =>
                /\ status = "Active"
                /\ accrued_interest = 0
                /\ principal = p
                /\ last_interest_calculation_date = sd
                /\ start_date = sd
                /\ collateral = None
                /\ Len(transaction_history) = 1
            /\ ~created => (Self = NoComponent /\ ~ENABLED Next)

\* A contract just created from valid parameters.
C14_Witness ==
    /\ created
    /\ ret.op = "instantiate_call_money"
    /\ ret.ok
    /\ principal = 100 * Scale
    /\ transaction_history = <<(<<"Contract initiated">>)>>

\* C15: an update_accrued_interest whose current_date is >= the stored
\* last_interest_calculation_date leaves accrued_interest >= what it was
\* (so accrued_interest is non-decreasing over a run of such calls with
\* non-decreasing dates), and one whose current_date equals the stored date
\* adds zero interest.
C15_AccrualMonotone ==
    [][(ret'.op = "update_accrued_interest"
            /\ ret'.args[1] >= last_interest_calculation_date) =>
        /\ accrued_interest' >= accrued_interest
        /\ principal' = principal
        /\ ret'.args[1] = last_interest_calculation_date =>
                /\ accrued_interest' = accrued_interest
                /\ transaction_history'[Len(transaction_history')]
                        = <<"Interest updated: ", 0>>]_vars

\* Three consecutive update_accrued_interest calls with non-decreasing
\* dates, the last with the stored date, the one before adding interest.
C15_Witness ==
    /\ created
    /\ ret.op = "update_accrued_interest"
    /\ ret.args[1] = last_interest_calculation_date
    /\ Len(transaction_history) = 4
    /\ transaction_history[2][1] = "Interest updated: "
    /\ transaction_history[3][1] = "Interest updated: "
    /\ transaction_history[3][2] > 0
    /\ transaction_history[4] = <<"Interest updated: ", 0>>
    /\ accrued_interest > 0

Max(a, b) == IF a >= b THEN a ELSE b

\* accrued_interest once accrual is brought current to date d.
AccruedAt(d) ==
    accrued_interest +
        Interest(principal, interest_rate, d - last_interest_calculation_date)

\* C17: a partial repay (amount < total_due) pays interest first and
\* principal with the remainder: with A the accrued_interest and P the
\* principal after accrual, it leaves accrued_interest = max(0, A - amount)
\* and principal = P - max(0, amount - A); principal is untouched whenever
\* amount <= A.
C17_InterestFirst ==
    [][(ret'.op = "repay" /\ ret'.args[1] < TotalDueAt(ret'.args[2])) =>
        LET amount == ret'.args[1]
            A == AccruedAt(ret'.args[2])
        IN  /\ accrued_interest' = Max(0, A - amount)
            /\ principal' = principal - Max(0, amount - A)
            /\ amount <= A => principal' = principal]_vars

\* A partial payment smaller than the interest accrued: interest is left
\* over and the principal is whole.
C17_Witness ==
    /\ created
    /\ ret.op = "repay"
    /\ ret.val = <<0>>
    /\ ret.args[1] > 0
    /\ accrued_interest > 0
    /\ principal = 100 * Scale
    /\ status # "Repaid"

Immutable == <<lender, borrower, interest_rate, start_date, notice_period,
               grace_period, penalty_rate>>

\* C18: lender, borrower, interest_rate, start_date, notice_period,
\* grace_period and penalty_rate never change after creation; principal is
\* changed only by repay and never increases; get_details and
\* get_transaction_history change no field.
C18_Frame ==
    [][/\ Immutable' = Immutable
       /\ principal' <= principal
       /\ principal' # principal => ret'.op = "repay"
       /\ ret'.op \in {"get_details", "get_transaction_history"} =>
            (ret'.ok /\ fields' = fields)]_vars

\* get_details on a called contract whose principal was reduced by a
\* partial repayment, reporting the fields as they are.
C18_Witness ==
    /\ created
    /\ ret.op = "get_details"
    /\ status = "Called"
    /\ principal > 0
    /\ principal < 100 * Scale
    /\ ret.val = <<lender, borrower, principal, interest_rate, start_date,
                   accrued_interest, status, collateral>>

\* C19: principal = 0 if and only if status = Repaid: a partial repay never
\* brings principal to exactly 0 and a Repaid contract keeps principal 0; so
\* remove_collateral succeeds only on a contract whose status is Repaid.
C19_ZeroPrincipalIffRepaid ==
    /\ [](created => (principal = 0 <=> status = "Repaid"))
    /\ [][(ret'.op = "repay" /\ ret'.args[1] < TotalDueAt(ret'.args[2])) =>
            principal' # 0]_vars
    /\ [][(ret'.op = "remove_collateral" /\ ret'.ok) =>
            (status = "Repaid" /\ status' = "Repaid")]_vars

\* remove_collateral handing back the collateral of a contract repaid with
\* exactly the total due.
C19_Witness ==
    /\ created
    /\ ret.op = "remove_collateral"
    /\ ret.ok
    /\ ret.val # <<None>>
    /\ status = "Repaid"
    /\ principal = 0
    /\ \E i \in 1..Len(transaction_history) :
            transaction_history[i] = <<"Loan fully repaid. Excess: ", 0>>

\* C20: the excess returned by repay(amount, current_date), for any
\* timestamp and any amount >= 0, satisfies 0 <= excess <= amount.
C20_ExcessWithinAmount ==
    [][ret'.op = "repay" =>
        (0 <= ret'.val[1] /\ ret'.val[1] <= ret'.args[1])]_vars

=============================================================================
